---- MODULE Spec2Model ----
(***************************************************************************)
(* Model of the instructor dashboard (src/instructor-ui/src/App.tsx,       *)
(* component NestJSWorkshopDashboard) and of the commit-all.sh script that *)
(* follows it in the same file.                                            *)
(*                                                                         *)
(* Strings that the code inspects character by character (participant     *)
(* names, the search query) are sequences of one-character strings.       *)
(* A value of type `string | null` is a sequence of length at most one:   *)
(* <<>> is null, <<m>> is the string m.                                   *)
(***************************************************************************)
EXTENDS Integers, Sequences, FiniteSets, TLC

VARIABLES
    query,          \* useState("")            App.tsx:135
    connected,      \* useState(false)         App.tsx:136
    participants,   \* useState<Participant[]> App.tsx:137
    error,          \* useState<string|null>   App.tsx:138
    lifecycle,      \* "init" (rendered, effect not run), "mounted", "torn"
    timer,          \* TRUE while the setInterval of line 168 is armed
    inflight,       \* calls of fetchParticipants suspended at an await, oldest first
    trackOrder,     \* TRUE in behaviours that record the history of issue order below
    latestDone,     \* history: outcome of the most recently issued call that completed
    viewByNewestOk, \* history: the view list was last written by the newest successful call
    lastPath,       \* history: path taken by the call that completed last: "ok" or "fail"
    lastData,       \* history: the parsed body the last successful call projected
    healthy,        \* environment: TRUE while the service answers every request well
    mapIn,          \* input of the raw-to-view mapping when it is checked on its own
    msg,            \* commit-all.sh: $1
    pc,             \* commit-all.sh: position in the script
    cwd,            \* commit-all.sh: working directory of the shell
    dirs,           \* file system: directories that exist below (and including) MAIN_DIR
    gitDirs,        \* file system: directories that contain a .git directory
    repo,           \* state of each work tree: "clean", "dirty" (unstaged), "staged"
    log             \* git commands run so far, as <<command, directory>>

dashVars   == <<query, connected, participants, error, lifecycle, timer,
                inflight, trackOrder, latestDone, viewByNewestOk, lastPath, lastData, healthy>>
scriptVars == <<msg, pc, cwd, dirs, gitDirs, repo, log>>
vars       == <<query, connected, participants, error, lifecycle, timer,
                inflight, trackOrder, latestDone, viewByNewestOk, lastPath, lastData, healthy, mapIn,
                msg, pc, cwd, dirs, gitDirs, repo, log>>

---------------------------------------------------------------------------
(* Bounds *)

MaxLen == 2

MaxInFlight == 2

MaxBadges == 22

MaxNested == 1

---------------------------------------------------------------------------
(* Values *)

Null == <<>>

Some(m) == <<m>>

Ana == <<"A", "n", "a">>

Bob == <<"B", "o", "b">>

Names == {Ana, Bob}

QuerySet == {<<>>, <<"a", "n", "a">>, <<"O", "B">>}

\* A BadgeData value; the slug and the label are abstracted to the badge's index.
BadgeData(i) == [id |-> i, name |-> 100 + i, earnedAt |-> 1000 + i]

\* lastSeen strings: one that Date parses (to a number of seconds) or one it does not.
SeenAt(s) == [valid |-> TRUE, secs |-> s]

SeenInvalid == [valid |-> FALSE, secs |-> 0]

SeenSet == {SeenAt(3725), SeenAt(90125), SeenInvalid}

ParticipantData(id, name, n, seen, online) ==
    [id |-> id, name |-> name, badges |-> [i \in 1..n |-> BadgeData(i)],
     lastSeen |-> seen, isOnline |-> online]

\* An entry of the response that has no badges array.
NoBadgesEntry == [id |-> 9, name |-> Bob, lastSeen |-> SeenInvalid, isOnline |-> FALSE]

RawPool ==
    { ParticipantData(1, Ana, 5, SeenAt(3725), TRUE),
      ParticipantData(2, Bob, 0, SeenInvalid, FALSE),
      NoBadgesEntry }

SeqsUpTo(S, n) == UNION { [1..k -> S] : k \in 0..n }

GoodLists == SeqsUpTo(RawPool \ {NoBadgesEntry}, MaxLen)

\* Bodies that response.json() can resolve to: lists of well-formed entries,
\* such a list followed by an entry without badges, and an object without the
\* participants field.
NoData == [status |-> "ok"]

Bodies ==
    { [participants |-> l] : l \in GoodLists }
    \cup { [participants |-> Append(l, NoBadgesEntry)] :
             l \in {g \in GoodLists : Len(g) < MaxLen} }
    \cup { NoData }

---------------------------------------------------------------------------
(* Pure functions of the component *)

\* Math.round of the quotient num/den (den > 0): nearest integer, halves upwards.
MathRound(num, den) == (2 * num + den) \div (2 * den)

ProgressCapped(n) == IF MathRound(n * 100, 20) > 100 THEN 100 ELSE MathRound(n * 100, 20)

Progress(n) == MathRound(n * 100, 20)

\* new Date(lastSeen).toLocaleTimeString(): the time of day, or "Invalid Date".
LocaleTime(seen) ==
    IF seen.valid
    THEN [text |-> "h:m:s", h |-> (seen.secs \div 3600) % 24,
          m |-> (seen.secs \div 60) % 60, s |-> seen.secs % 60]
    ELSE [text |-> "Invalid Date", h |-> 0, m |-> 0, s |-> 0]

Projectable(p) == "badges" \in DOMAIN p

ToView(p) ==
    [id |-> p.id,
     name |-> p.name,
     progress |-> Progress(Len(p.badges)),
     lastActivity |-> LocaleTime(p.lastSeen),
     badges |-> [i \in DOMAIN p.badges |-> p.badges[i].id],
     isOnline |-> p.isOnline]

\* data.participants || []
RawList(data) == IF "participants" \in DOMAIN data THEN data.participants ELSE <<>>

\* The map of lines 147-156 throws a TypeError at the first entry without badges.
MapThrows(raw) == \E i \in DOMAIN raw : ~Projectable(raw[i])

Formatted(raw) == [i \in DOMAIN raw |-> ToView(raw[i])]

WellFormedBodies == {data \in Bodies : ~MapThrows(RawList(data))}

ThrowingBodies == {data \in Bodies : MapThrows(RawList(data))}

ToLowerChar(c) ==
    CASE c = "A" -> "a"
      [] c = "B" -> "b"
      [] c = "N" -> "n"
      [] c = "O" -> "o"
      [] OTHER -> c

toLowerCase(s) == [i \in DOMAIN s |-> ToLowerChar(s[i])]

includes(s, q) ==
    \E k \in 0..(Len(s) - Len(q)) : SubSeq(s, k + 1, k + Len(q)) = q

MatchesCaseSensitive(p, q) == includes(p.name, q)

Matches(p, q) == includes(toLowerCase(p.name), toLowerCase(q))

RECURSIVE Filter(_, _)
Filter(list, q) ==
    IF list = <<>> THEN <<>>
    ELSE IF Matches(Head(list), q)
         THEN <<Head(list)>> \o Filter(Tail(list), q)
         ELSE Filter(Tail(list), q)

filtered == Filter(participants, query)

RECURSIVE SumProgress(_)
SumProgress(list) ==
    IF list = <<>> THEN 0 ELSE Head(list).progress + SumProgress(Tail(list))

RECURSIVE CountOnline(_)
CountOnline(list) ==
    IF list = <<>> THEN 0
    ELSE (IF Head(list).isOnline THEN 1 ELSE 0) + CountOnline(Tail(list))

activeCount == CountOnline(participants)

RECURSIVE OnlineOnly(_)
OnlineOnly(list) ==
    IF list = <<>> THEN <<>>
    ELSE IF Head(list).isOnline
         THEN <<Head(list)>> \o OnlineOnly(Tail(list))
         ELSE OnlineOnly(Tail(list))

AvgOnlineOnly(list) ==
    IF Len(OnlineOnly(list)) # 0
    THEN MathRound(SumProgress(OnlineOnly(list)), Len(OnlineOnly(list)))
    ELSE 0

Avg(list) ==
    IF Len(list) # 0 THEN MathRound(SumProgress(list), Len(list)) ELSE 0

avg == Avg(participants)

---------------------------------------------------------------------------
(* The polling fetch loop, lines 140-170 *)

\* Values that the try block can throw.
NotOkError == [isError |-> TRUE, message |-> "Failed to fetch participants"]

NetworkErrors ==
    { [isError |-> TRUE, message |-> "Failed to fetch"],
      [isError |-> FALSE, message |-> "" ] }

SyntaxError == [isError |-> TRUE, message |-> "Unexpected token in JSON"]

TypeError == [isError |-> TRUE, message |-> "Cannot read properties of undefined"]

\* err instanceof Error ? err.message : "Unknown error"
CatchMessage(err) == IF err.isError THEN err.message ELSE "Unknown error"

\* State written by lines 158-160.
SuccessKeepsError(view) ==
    [participants |-> view, connected |-> TRUE, error |-> error]

Success(view) ==
    [participants |-> view, connected |-> TRUE, error |-> Null]

\* State written by lines 162-163.
FailureClearsList(err) ==
    [participants |-> <<>>, connected |-> FALSE, error |-> Some(CatchMessage(err))]

Failure(err) ==
    [participants |-> participants, connected |-> FALSE, error |-> Some(CatchMessage(err))]

\* A call of fetchParticipants that has just started: suspended at `await fetch`.
NewCall == [phase |-> "fetch", stale |-> FALSE, staleOk |-> FALSE]

\* The calls still suspended once call i has run to its end; the calls issued
\* before it learn that a later call has completed (and whether it succeeded).
Remaining(i, ok) ==
    [j \in 1..(Len(inflight) - 1) |->
        IF j < i
        THEN IF trackOrder
             THEN [inflight[j] EXCEPT !.stale = TRUE, !.staleOk = @ \/ ok]
             ELSE inflight[j]
        ELSE inflight[j + 1]]

\* Call i runs from its await to the end of the function with result r;
\* data is the body it parsed, if it got that far. The setters of lines
\* 158-163 are called whether or not the cleanup has run in the meantime.
Settle(i, ok, data, r) ==
    /\ lastData' = IF ok THEN data ELSE lastData
    /\ lastPath' = IF ok THEN "ok" ELSE "fail"
    /\ inflight' = Remaining(i, ok)
    /\ participants' = r.participants
    /\ connected' = r.connected
    /\ error' = r.error
    /\ latestDone' = IF ~trackOrder \/ inflight[i].stale THEN latestDone
                     ELSE IF ok THEN "ok" ELSE "fail"
    /\ viewByNewestOk' =
          IF ~trackOrder \/ ~ok THEN viewByNewestOk
          ELSE IF ~inflight[i].staleOk THEN TRUE
          ELSE viewByNewestOk /\ r.participants = participants
    /\ UNCHANGED <<query, lifecycle, timer, healthy, mapIn, trackOrder>>
    /\ UNCHANGED scriptVars

TimerAfterCleanupLeftArmed == timer

\* clearInterval(interval), line 169
TimerAfterCleanup == FALSE

TickEnabledOnlyWhenConnected ==
    timer /\ connected /\ Len(inflight) < MaxInFlight

\* The interval callback runs whenever the timer is armed (the number of
\* calls outstanding at once is bounded by MaxInFlight).
TickEnabled == timer /\ Len(inflight) < MaxInFlight

\* The effect of line 140 runs once after the first render: lines 167-168.
Mount ==
    /\ lifecycle = "init"
    /\ lifecycle' = "mounted"
    /\ inflight' = Append(inflight, NewCall)
    /\ timer' = TRUE
    /\ UNCHANGED <<query, connected, participants, error, trackOrder,
                   latestDone, viewByNewestOk, lastPath, lastData, healthy, mapIn>>
    /\ UNCHANGED scriptVars

\* setInterval fires fetchParticipants, line 168.
Tick ==
    /\ TickEnabled
    /\ inflight' = Append(inflight, NewCall)
    /\ UNCHANGED <<query, connected, participants, error, lifecycle, timer,
                   trackOrder, latestDone, viewByNewestOk, lastPath, lastData, healthy, mapIn>>
    /\ UNCHANGED scriptVars

\* The cleanup returned by the effect, line 169.
Unmount ==
    /\ lifecycle = "mounted"
    /\ lifecycle' = "torn"
    /\ timer' = TimerAfterCleanup
    /\ UNCHANGED <<query, connected, participants, error, inflight, trackOrder,
                   latestDone, viewByNewestOk, lastPath, lastData, healthy, mapIn>>
    /\ UNCHANGED scriptVars

\* `await fetch` resolves with response.ok; the call goes on to `await response.json()`.
FetchResolveOk(i) ==
    /\ i \in DOMAIN inflight
    /\ inflight[i].phase = "fetch"
    /\ inflight' = [inflight EXCEPT ![i].phase = "json"]
    /\ UNCHANGED <<query, connected, participants, error, lifecycle, timer,
                   trackOrder, latestDone, viewByNewestOk, lastPath, lastData, healthy, mapIn>>
    /\ UNCHANGED scriptVars

\* `await fetch` resolves with !response.ok: line 144 throws, lines 162-163 run.
FetchResolveNotOk(i) ==
    /\ i \in DOMAIN inflight
    /\ inflight[i].phase = "fetch"
    /\ ~healthy
    /\ Settle(i, FALSE, NoData, Failure(NotOkError))

\* `await fetch` rejects (network failure): lines 162-163 run.
FetchReject(i, err) ==
    /\ i \in DOMAIN inflight
    /\ inflight[i].phase = "fetch"
    /\ ~healthy
    /\ Settle(i, FALSE, NoData, Failure(err))

\* `await response.json()` rejects (malformed body): lines 162-163 run.
JsonReject(i) ==
    /\ i \in DOMAIN inflight
    /\ inflight[i].phase = "json"
    /\ ~healthy
    /\ Settle(i, FALSE, NoData, Failure(SyntaxError))

\* `await response.json()` resolves with data that the map of lines 147-156
\* projects: lines 158-160 run.
JsonResolve(i, data) ==
    /\ i \in DOMAIN inflight
    /\ inflight[i].phase = "json"
    /\ Settle(i, TRUE, data, Success(Formatted(RawList(data))))

\* `await response.json()` resolves with data on which the map throws: lines
\* 162-163 run.
MapCallbackThrows(i, data) ==
    /\ i \in DOMAIN inflight
    /\ inflight[i].phase = "json"
    /\ ~healthy
    /\ Settle(i, FALSE, data, Failure(TypeError))

\* onChange of the search input, line 225.
SetQuery(q) ==
    /\ q \in QuerySet
    /\ q # query
    /\ lifecycle = "mounted"
    /\ query' = q
    /\ UNCHANGED <<connected, participants, error, lifecycle, timer, inflight,
                   trackOrder, latestDone, viewByNewestOk, lastPath, lastData, healthy, mapIn>>
    /\ UNCHANGED scriptVars

\* The script is not running while the dashboard is modelled.
ScriptIdle ==
    /\ msg = ""
    /\ pc = [at |-> "idle", i |-> 0]
    /\ cwd = <<>>
    /\ dirs = {}
    /\ gitDirs = {}
    /\ repo = <<>>
    /\ log = <<>>

\* The state after the first render: the useState initial values of lines 135-138.
Init ==
    /\ query = <<>>
    /\ connected = FALSE
    /\ participants = <<>>
    /\ error = Null
    /\ lifecycle = "init"
    /\ timer = FALSE
    /\ inflight = <<>>
    /\ trackOrder = FALSE
    /\ latestDone = "none"
    /\ viewByNewestOk = TRUE
    /\ lastPath = "none"
    /\ lastData = NoData
    /\ healthy = FALSE
    /\ mapIn = <<>>
    /\ ScriptIdle

FetchFails ==
    \E i \in 1..MaxInFlight :
        \/ FetchResolveNotOk(i)
        \/ \E err \in NetworkErrors : FetchReject(i, err)

FetchResolves == \E i \in 1..MaxInFlight : FetchResolveOk(i)

JsonRejects == \E i \in 1..MaxInFlight : JsonReject(i)

JsonResolves ==
    \E i \in 1..MaxInFlight : \E data \in WellFormedBodies : JsonResolve(i, data)

JsonThrows ==
    \E i \in 1..MaxInFlight : \E data \in ThrowingBodies : MapCallbackThrows(i, data)

QueryChanges == \E q \in QuerySet : SetQuery(q)

Next ==
    \/ Mount
    \/ Tick
    \/ Unmount
    \/ FetchResolves
    \/ FetchFails
    \/ JsonRejects
    \/ JsonResolves
    \/ JsonThrows
    \/ QueryChanges

Spec == Init /\ [][Next]_vars

\* The same component, with the order of issue of the calls recorded.
OrderInit ==
    /\ query = <<>>
    /\ connected = FALSE
    /\ participants = <<>>
    /\ error = Null
    /\ lifecycle = "init"
    /\ timer = FALSE
    /\ inflight = <<>>
    /\ trackOrder = TRUE
    /\ latestDone = "none"
    /\ viewByNewestOk = TRUE
    /\ lastPath = "none"
    /\ lastData = NoData
    /\ healthy = FALSE
    /\ mapIn = <<>>
    /\ ScriptIdle

OrderSpec == OrderInit /\ [][Next]_vars

---------------------------------------------------------------------------
(* The service behind the endpoint, as far as the liveness of polling needs it *)

\* From now on every request is answered with an OK status and a well-formed body.
Heal ==
    /\ ~healthy
    /\ healthy' = TRUE
    /\ UNCHANGED <<query, connected, participants, error, lifecycle, timer,
                   inflight, trackOrder, latestDone, viewByNewestOk, lastPath, lastData, mapIn>>
    /\ UNCHANGED scriptVars

Break ==
    /\ healthy
    /\ healthy' = FALSE
    /\ UNCHANGED <<query, connected, participants, error, lifecycle, timer,
                   inflight, trackOrder, latestDone, viewByNewestOk, lastPath, lastData, mapIn>>
    /\ UNCHANGED scriptVars

\* The component together with the service.
LiveNext == Next \/ Heal \/ Break

\* The event loop runs the effect and every due timer callback; every request
\* that the service answers is eventually delivered to its continuation.
LiveSpec ==
    /\ Init
    /\ [][LiveNext]_vars
    /\ WF_vars(Mount)
    /\ WF_vars(Tick)
    /\ WF_vars(FetchResolves)
    /\ WF_vars(JsonResolves)

---------------------------------------------------------------------------
(* The raw-to-view mapping of lines 147-156 on its own *)

MapInputs ==
    { <<ParticipantData(1, nm, n, seen, online)>> :
        nm \in Names, n \in 0..MaxBadges, seen \in SeenSet, online \in BOOLEAN }

MapInit ==
    /\ query = <<>>
    /\ connected = FALSE
    /\ participants = <<>>
    /\ error = Null
    /\ lifecycle = "init"
    /\ timer = FALSE
    /\ inflight = <<>>
    /\ trackOrder = FALSE
    /\ latestDone = "none"
    /\ viewByNewestOk = TRUE
    /\ lastPath = "none"
    /\ lastData = NoData
    /\ healthy = FALSE
    /\ mapIn \in MapInputs
    /\ ScriptIdle

MapApply ==
    /\ mapIn # <<>>
    /\ participants = <<>>
    /\ participants' = Formatted(mapIn)
    /\ UNCHANGED <<query, connected, error, lifecycle, timer, inflight,
                   trackOrder, latestDone, viewByNewestOk, lastPath, lastData, healthy, mapIn>>
    /\ UNCHANGED scriptVars

MapNext == MapApply

MapSpec == MapInit /\ [][MapNext]_vars

---------------------------------------------------------------------------
(* commit-all.sh, lines 365-414 *)

\* Directories are paths relative to MAIN_DIR; MAIN_DIR itself is <<>>.
MainDir == <<>>

\* A work tree that contains MAIN_DIR (git looks for .git in parent directories).
Outer == <<"..">>

NoRepo == <<"none">>

Subrepos == <<"instructor-service", "instructor-ui", "participant-service">>

SubrepoNames == {Subrepos[i] : i \in DOMAIN Subrepos}

NestedPaths == {<<w, x>> : w \in SubrepoNames, x \in SubrepoNames}

\* The work tree git operates on when run in dir: the nearest directory, from
\* dir upwards, that contains .git.
RepoOf(dir, gd) ==
    IF dir \in gd THEN dir
    ELSE IF Len(dir) = 2 /\ <<dir[1]>> \in gd THEN <<dir[1]>>
    ELSE IF Len(dir) >= 1 /\ MainDir \in gd THEN MainDir
    ELSE IF Outer \in gd THEN Outer
    ELSE NoRepo

\* git add -A
AfterAdd(r, rp) ==
    IF r # NoRepo /\ rp[r] = "dirty" THEN [rp EXCEPT ![r] = "staged"] ELSE rp

\* Exit status of git diff --cached --quiet: 0 when nothing is staged, 1 when
\* something is, 129 outside a work tree.
DiffExit(r, rp) ==
    IF r = NoRepo THEN 129 ELSE IF rp[r] = "staged" THEN 1 ELSE 0

\* git commit -m "$COMMIT_MSG"; its exit status is not looked at.
AfterCommit(r, rp, commitOk) ==
    IF r # NoRepo /\ rp[r] = "staged" /\ commitOk THEN [rp EXCEPT ![r] = "clean"] ELSE rp

\* commit_in_dir, lines 383-398, called with an absolute directory.
commit_in_dir(dir, st, commitOk) ==
    IF dir \notin dirs
    THEN st
    ELSE LET r    == RepoOf(dir, gitDirs)
             rp1  == AfterAdd(r, st.repo)
             ex   == DiffExit(r, rp1)
             log1 == st.log \o << [cmd |-> "add", dir |-> dir, m |-> "", exit |-> 0],
                                  [cmd |-> "diff", dir |-> dir, m |-> "", exit |-> ex] >>
         IN  IF ex = 0
             THEN [cwd |-> dir, repo |-> rp1, log |-> log1]
             ELSE [cwd |-> dir,
                   repo |-> AfterCommit(r, rp1, commitOk),
                   log |-> Append(log1, [cmd |-> "commit", dir |-> dir, m |-> msg, exit |-> 0])]

ShellState == [cwd |-> cwd, repo |-> repo, log |-> log]

\* Lines 375-380 and 401.
CheckArgs ==
    /\ pc.at = "args"
    /\ pc' = IF msg = "" THEN [at |-> "usage", i |-> 0] ELSE [at |-> "sub", i |-> 1]
    /\ UNCHANGED <<msg, cwd, dirs, gitDirs, repo, log, mapIn>>
    /\ UNCHANGED dashVars

\* The test of line 405, made relative to the shell's working directory.
SubrepoTest(name) == (cwd \o <<name>>) \in gitDirs

\* One iteration of the loop of lines 404-408.
SubrepoIteration(commitOk) ==
    /\ pc.at = "sub"
    /\ LET name == Subrepos[pc.i]
           st   == IF SubrepoTest(name)
                   THEN commit_in_dir(<<name>>, ShellState, commitOk)
                   ELSE ShellState
       IN  /\ cwd' = st.cwd
           /\ repo' = st.repo
           /\ log' = st.log
    /\ pc' = IF pc.i < Len(Subrepos) THEN [at |-> "sub", i |-> pc.i + 1]
             ELSE [at |-> "main", i |-> 0]
    /\ UNCHANGED <<msg, dirs, gitDirs, mapIn>>
    /\ UNCHANGED dashVars

\* Lines 411-412: cd "$MAIN_DIR"; commit_in_dir "$MAIN_DIR".
MainRepo(commitOk) ==
    commit_in_dir(MainDir, [ShellState EXCEPT !.cwd = MainDir], commitOk)

\* Lines 410-414.
MainStep(commitOk) ==
    /\ pc.at = "main"
    /\ LET st == MainRepo(commitOk)
       IN  /\ cwd' = st.cwd
           /\ repo' = st.repo
           /\ log' = st.log
    /\ pc' = [at |-> "done", i |-> 0]
    /\ UNCHANGED <<msg, dirs, gitDirs, mapIn>>
    /\ UNCHANGED dashVars

DashboardIdle ==
    /\ query = <<>>
    /\ connected = FALSE
    /\ participants = <<>>
    /\ error = Null
    /\ lifecycle = "init"
    /\ timer = FALSE
    /\ inflight = <<>>
    /\ trackOrder = FALSE
    /\ latestDone = "none"
    /\ viewByNewestOk = TRUE
    /\ lastPath = "none"
    /\ lastData = NoData
    /\ healthy = FALSE
    /\ mapIn = <<>>

\* The script is started in MAIN_DIR on some file system.
ScriptInit ==
    /\ DashboardIdle
    /\ msg \in {"", "wip"}
    /\ pc = [at |-> "args", i |-> 0]
    /\ cwd = MainDir
    /\ log = <<>>
    /\ \E top \in [SubrepoNames -> {"absent", "plain", "clean", "dirty"}],
          mainS \in {"plain", "clean", "dirty"},
          outerS \in {"absent", "clean", "dirty"},
          nested \in SUBSET NestedPaths :
          /\ Cardinality(nested) <= MaxNested
          /\ \A n \in nested : top[n[1]] # "absent"
          /\ \E nestedS \in [nested -> {"clean", "dirty"}] :
                /\ dirs = {MainDir} \cup {<<x>> : x \in {y \in SubrepoNames : top[y] # "absent"}}
                          \cup nested
                /\ gitDirs = {<<x>> : x \in {y \in SubrepoNames : top[y] \in {"clean", "dirty"}}}
                             \cup nested
                             \cup (IF mainS = "plain" THEN {} ELSE {MainDir})
                             \cup (IF outerS = "absent" THEN {} ELSE {Outer})
                /\ repo = [d \in gitDirs |->
                             IF d = MainDir THEN mainS
                             ELSE IF d = Outer THEN outerS
                             ELSE IF Len(d) = 2 THEN nestedS[d]
                             ELSE top[d[1]]]

ScriptNext ==
    \/ CheckArgs
    \/ \E commitOk \in BOOLEAN : SubrepoIteration(commitOk)
    \/ \E commitOk \in BOOLEAN : MainStep(commitOk)

ScriptSpec == ScriptInit /\ [][ScriptNext]_vars

---------------------------------------------------------------------------
(* Steps of the fetch loop by the path they take *)

\* A call has just run to its end.
Completes == Len(inflight') < Len(inflight)

---------------------------------------------------------------------------
(* Properties *)

\* C1: in every reachable state, also when overlapping requests complete out
\* of order, the connectivity flag and the error message reflect the outcome of
\* the most recently issued fetch that has completed, and the view list was
\* written by the most recently issued successful fetch: an older response
\* never overwrites what a newer one established.
C1_NewestIssuedWins ==
    /\ latestDone = "ok" => (connected /\ error = Null)
    /\ latestDone = "fail" => (~connected /\ error # Null)
    /\ viewByNewestOk

\* C2: a fetch that completes on the failure path sets connected to false and
\* the error to a non-null message, and leaves the view list and the query as
\* they were.
C2_FailureKeepsList ==
    [][(Completes /\ lastPath' = "fail") =>
        /\ connected' = FALSE
        /\ error' # Null
        /\ participants' = participants
        /\ query' = query]_vars

\* C2 witness: after a failure the earlier list is still there and still filtered.
C2_Witness ==
    /\ ~connected
    /\ error = Some("Failed to fetch participants")
    /\ Len(participants) = 2
    /\ query # <<>>
    /\ Len(filtered) = 1

\* C3: a fetch that completes on the success path replaces the view list by
\* the projection of the returned array (empty when the field is absent), entry
\* by entry in the same order, sets connected to true and the error to null,
\* whatever the state before.
C3_SuccessReplaces ==
    [][(Completes /\ lastPath' = "ok") =>
        LET raw == IF "participants" \in DOMAIN lastData'
                   THEN lastData'.participants ELSE <<>>
        IN  /\ connected' = TRUE
            /\ error' = Null
            /\ Len(participants') = Len(raw)
            /\ \A k \in 1..Len(raw) :
                  /\ participants'[k].id = raw[k].id
                  /\ participants'[k].name = raw[k].name
                  /\ participants'[k].isOnline = raw[k].isOnline
                  /\ Len(participants'[k].badges) = Len(raw[k].badges)
                  /\ \A j \in 1..Len(raw[k].badges) :
                        participants'[k].badges[j] = raw[k].badges[j].id
                  /\ participants'[k].progress * 20 = Len(raw[k].badges) * 100]_vars

\* C3 witness: a two-entry list in the order it was returned, connected, no error.
C3_Witness ==
    /\ connected
    /\ error = Null
    /\ lastPath = "ok"
    /\ Len(participants) = 2
    /\ participants[1].id = 2
    /\ participants[2].id = 1

\* C4: while the view is mounted the timer is armed and a tick can issue a
\* fetch in every state of connected and error (up to MaxInFlight outstanding
\* calls), the effect issues the first fetch, and whenever the service answers
\* every request well from some point on and the view stays mounted, connected
\* with a null error is reached.
C4_PollingContinues ==
    /\ [](lifecycle = "mounted" =>
            /\ timer
            /\ (Len(inflight) < MaxInFlight => ENABLED Tick))
    /\ [][lifecycle = "init" /\ lifecycle' = "mounted" => Len(inflight') = 1]_vars
    /\ []<>(~healthy \/ lifecycle = "torn" \/ (connected /\ error = Null))

\* C4 witness: mounted with the timer armed and a call outstanding, connected
\* with no error while the service answers well.
C4_Witness ==
    /\ healthy
    /\ lifecycle = "mounted"
    /\ timer
    /\ connected
    /\ error = Null
    /\ inflight # <<>>

\* C5: the teardown cancels the timer, and once the view is torn down it
\* stays torn down and no step issues a new fetch.
C5_NoFetchAfterTeardown ==
    [][/\ (lifecycle' = "torn" => ~timer')
       /\ (lifecycle = "torn" =>
             /\ lifecycle' = "torn"
             /\ Len(inflight') <= Len(inflight))]_vars

\* C5 witness: torn down with the timer off while a call is still outstanding.
C5_Witness ==
    /\ lifecycle = "torn"
    /\ ~timer
    /\ Len(inflight) = MaxInFlight

\* C8: a raw participant with n badges gets progress round(n / 20 * 100),
\* which is 5 n, uncapped: 0 for 0, 25 for 5, 100 for 20, 110 for 22.
C8_ProgressUncapped ==
    participants # <<>> =>
        /\ Len(participants) = Len(mapIn)
        /\ \A k \in 1..Len(mapIn) :
              LET n == Len(mapIn[k].badges)
                  g == participants[k].progress
              IN  /\ 2 * 20 * g - 20 <= 2 * 100 * n
                  /\ 2 * 100 * n < 2 * 20 * g + 20
                  /\ (n = 0 => g = 0)
                  /\ (n = 5 => g = 25)
                  /\ (n = 20 => g = 100)
                  /\ (n = 22 => g = 110)
                  /\ (n > 20 => g > 100)

\* C8 witness: the mapping was applied to a participant with 22 badges.
C8_Witness ==
    /\ Len(participants) = 1
    /\ Len(mapIn[1].badges) = 22
    /\ participants[1].progress = 110

\* C9: in every state average-progress is the mean of the progress of all
\* entries of the view list, rounded to the nearest integer, and 0 for the
\* empty list.
C9_AverageOfAll ==
    LET n == Len(participants)
        S[k \in 0..n] == IF k = 0 THEN 0 ELSE S[k - 1] + participants[k].progress
    IN  /\ (n = 0 => avg = 0)
        /\ (n > 0 => /\ 2 * n * avg - n <= 2 * S[n]
                      /\ 2 * S[n] < 2 * n * avg + n)

\* C9 witness: an online entry at 25 and an offline one at 0 average to 13,
\* under a non-empty query.
C9_Witness ==
    /\ Len(participants) = 2
    /\ participants[1].progress = 25
    /\ ~participants[2].isOnline
    /\ participants[2].progress = 0
    /\ avg = 13
    /\ query # <<>>

\* C10: in every state the displayed list consists, in the order of the view
\* list, of exactly the entries whose lower-cased name contains the lower-cased
\* query (all of them for the empty query), and a change of the query changes
\* neither the view list nor connected nor error.
C10_FilterIsSublist ==
    /\ [](LET hits == {i \in DOMAIN participants :
                         includes(toLowerCase(participants[i].name), toLowerCase(query))}
          IN  /\ Len(filtered) = Cardinality(hits)
              /\ \E f \in [1..Len(filtered) -> hits] :
                    /\ \A a, b \in 1..Len(filtered) : a < b => f[a] < f[b]
                    /\ \A a \in 1..Len(filtered) : filtered[a] = participants[f[a]]
              /\ (query = <<>> => filtered = participants))
    /\ [][query' # query => /\ participants' = participants
                            /\ connected' = connected
                            /\ error' = error]_vars

\* C10 witness: disconnected, query "ana" keeps "Ana" and drops "Bob".
C10_Witness ==
    /\ ~connected
    /\ query = <<"a", "n", "a">>
    /\ Len(participants) = 2
    /\ participants[1].name = Bob
    /\ participants[2].name = Ana
    /\ filtered = <<participants[2]>>

InDir(cmd, dir) == \E k \in DOMAIN log : log[k].cmd = cmd /\ log[k].dir = dir

\* C6: when the script has finished, every named subdirectory that contains
\* .git was staged and, if the staged check found changes, committed with the
\* supplied message, whatever the other subdirectories are; in a subdirectory
\* without .git no git command ran.
C6_EverySubrepoProcessed ==
    pc.at = "done" =>
        \A x \in SubrepoNames :
            IF <<x>> \in gitDirs
            THEN /\ InDir("add", <<x>>)
                 /\ \A k \in DOMAIN log :
                       (log[k].cmd = "diff" /\ log[k].dir = <<x>> /\ log[k].exit # 0) =>
                          \E c \in DOMAIN log :
                             log[c].cmd = "commit" /\ log[c].dir = <<x>> /\ log[c].m = msg
            ELSE \A k \in DOMAIN log : log[k].dir # <<x>>

\* C7: when the script has finished, the containing directory was staged and
\* committed only if it contains .git; without it no stage or commit command
\* ran there.
C7_MainOnlyWithMetadata ==
    pc.at = "done" =>
        (MainDir \notin gitDirs =>
            ~InDir("add", MainDir) /\ ~InDir("commit", MainDir))

====
